---- MODULE Spec2Model ----
(***************************************************************************)
(* Heartbeat monitor of radical.utils (src/src/radical/utils/heartbeat.py) *)
(* as a state machine: the Heartbeat object, its watcher thread (_watch),  *)
(* the caller operations (start, stop, beat, register_monitor,             *)
(* wait_startup, dump) and a discrete wall clock.  The watcher takes       *)
(* self._lock in a step of its own and runs the locked block in the next;  *)
(* its steps between two accesses to shared state are separate actions, so *)
(* caller operations interleave with them.  A caller's locked block is one *)
(* action, taken when the lock is free.                                    *)
(* The Lockfile class (src/src/radical/utils/lockfile.py) is a second      *)
(* state machine over variables of its own.                                *)
(***************************************************************************)
EXTENDS Integers, Sequences, FiniteSets, TLC

VARIABLES
    clock,      \* time.time(), in whole time units
    obj,        \* "unborn" | "ok" (constructed) | "error" (__init__ raised ValueError)
    timeout,    \* self._timeout (None when unset)
    interval,   \* self._interval
    beat_cb,    \* TRUE iff a self-heartbeat callback is configured (self._beat_cb)
    term_cb,    \* self._term_cb: PyNone, or the kind of callback configured
    term,       \* self._term (the stop Event)
    tstamps,    \* self._tstamps: function from the keys present to timestamps
    monitors,   \* self._monitors
    alive,      \* the owning process (self._pid) is still running
    signals,    \* the os.kill calls made so far, in order
    wpc,        \* position of the watcher thread in _watch
    wake,       \* end of the watcher's current time.sleep
    now,        \* _watch local: now
    todo,       \* _watch local: uids of the snapshot the for loop has not visited yet
    cur,        \* _watch local: uid
    ret,        \* _watch local: ret
    regs,       \* history: detector of the last register_monitor call that returned
    wregs,      \* history: regs as it was when the current tick began
    origin,     \* history: per key, what wrote the table entry last
    beaten,     \* history: the uids beat() was called for
    outcome,    \* history: per key, what the current tick did for it
    nFatal,     \* history: number of unrecoverable timeouts decided (ret is None)
    lock,       \* self._lock: "free" or its holder
    nbeat,      \* history: self-heartbeat callback invocations of the current tick
    wspc,       \* position of the caller thread inside wait_startup
    wsuids,     \* wait_startup local: uids (a list)
    wsto,       \* wait_startup argument: timeout
    wsstart,    \* wait_startup local: start
    wsok,       \* wait_startup local: ok (a list)
    wsret,      \* what the last wait_startup call returned
    dumped,     \* what the last dump call wrote to the logger
    lf_fd,      \* Lockfile._fd of each Lockfile object (NoFd for None)
    lf_tlock,   \* Lockfile._tlock of each object: held or not
    lf_pc,      \* position of the thread inside acquire() of each object
    lf_to,      \* acquire argument: timeout
    lf_start,   \* acquire local: start
    lf_wake,    \* acquire is in its time.sleep(0.1) (1) or not (0)
    lf_res,     \* how the last operation on each object ended
    flocks,     \* per file, the descriptor whose open file holds the flock
    wpc2,       \* position of the watcher thread of a second start()
    wake2,      \* its sleep's end
    now2,       \* its local: now
    todo2,      \* its local: the uids of the snapshot not yet visited
    cur2,       \* its local: uid
    ret2        \* its local: ret

\* the variables of the Lockfile objects
lfvars == <<lf_fd, lf_tlock, lf_pc, lf_to, lf_start, lf_wake, lf_res, flocks>>

\* the locals of the watcher thread that a second call of start() spawns
loop2vars == <<wpc2, wake2, now2, todo2, cur2, ret2>>

\* the variables of wait_startup and dump
waitvars == <<wspc, wsuids, wsto, wsstart, wsok, wsret, dumped>>

vars == <<clock, obj, timeout, interval, beat_cb, term_cb, term, tstamps, monitors,
          alive, signals, wpc, wake, now, todo, cur, ret,
          regs, wregs, origin, beaten, outcome, nFatal, lock, nbeat, waitvars, lfvars, loop2vars>>

-----------------------------------------------------------------------------
\* Bound of the model: the clock stops here
MaxTime == 4

\* Python values
None    == -1           \* None where a number is expected (timeout, timestamp)
PyNone  == "<None>"     \* None where a uid, a callback or its result is expected
PyTrue  == "<True>"
PyFalse == "<False>"
PyEmpty == ""

PROCESS_MONITOR       == "process_monitor"
FILE_REMOVAL_MONITOR  == "file_removal_monitor"
FILE_CREATION_MONITOR == "file_creation_monitor"
BuiltinMonitors == {PROCESS_MONITOR, FILE_REMOVAL_MONITOR, FILE_CREATION_MONITOR}

SIGTERM == "SIGTERM"
SIGKILL == "SIGKILL"
OwnPid  == "os.getpid()"

\* Inputs
Uids       == {"default", "w"}
UidArgs    == Uids \cup {PyNone}
\* a timestamp argument: omitted, 0, or one from the past
TsArgs     == {None, 0, -2}
Timeouts   == {None, 0, 1, 2}
Intervals  == {1, 2}
\* a recovery callback answers None or: True, an empty value, a replacement uid
TermCbs    == {PyNone, "ret_true", "ret_false", "ret_uid"}
TermCbReturns(cb) == CASE cb = "ret_true"  -> {PyNone, PyTrue}
                       [] cb = "ret_false" -> {PyNone, PyFalse}
                       [] cb = "ret_uid"   -> {PyNone} \cup Uids
\* the constructor's arguments (timeout, interval, beat_cb, term_cb): every timeout
\* and interval without a self-heartbeat callback, every recovery callback and a
\* self-heartbeat callback with the shortest timeout
Configs    == (Timeouts \X Intervals \X {FALSE} \X {PyNone, "ret_uid"})
              \cup ({1} \X {1} \X {FALSE} \X TermCbs)
              \cup ({1} \X {1} \X {TRUE} \X {PyNone})
\* the same with detectors registered
MonConfigs == {1} \X {1} \X {TRUE} \X {"ret_uid"}
\* a detector is a callable (one that returns True, one that raises) or a constant
MonUids    == {"w"}
Detectors  == {"cb_true", "cb_raise"} \cup BuiltinMonitors
Keys       == Uids \cup {PyTrue, PyFalse}

\* Python truthiness of a number-or-None
Truthy(x) == x # None /\ x # 0

-----------------------------------------------------------------------------
\* Heartbeat.__init__ (heartbeat.py 24-107)

\* line 89: if timeout and interval > timeout: raise ValueError
InitRaisesGe(t, i) == Truthy(t) /\ i >= t

InitRaises(t, i) == Truthy(t) /\ i > t

New(t, i, bcb, tcb) ==
    /\ obj = "unborn"
    /\ IF InitRaises(t, i)
       THEN /\ obj' = "error"
            /\ UNCHANGED <<timeout, interval, beat_cb, term_cb>>
       ELSE /\ obj' = "ok"
            /\ timeout' = t
            /\ interval' = i
            /\ beat_cb' = bcb
            /\ term_cb' = tcb
    /\ UNCHANGED <<clock, term, tstamps, monitors, alive, signals, wpc, wake,
                   now, todo, cur, ret, regs, wregs, origin, beaten, outcome, nFatal, lock, nbeat, waitvars, lfvars, loop2vars>>

\* a caller can use the object: it exists and the process runs
Usable == obj = "ok" /\ alive

-----------------------------------------------------------------------------
\* Caller operations

\* Heartbeat.register_monitor (112-120).  A string detector reaches the comparison
\* with the bare name PROCESS_MONITOR, which is no global of the module: NameError.
\* Any other detector falls through all tests: nothing is stored, nothing is
\* written to the table.
RegisterRaises(monitor) == monitor \in BuiltinMonitors

RegisteredSeeds(uid, monitor) ==
    [mon |-> monitors,
     ts  |-> [k \in DOMAIN tstamps \cup {uid} |->
                 IF k \in DOMAIN tstamps THEN tstamps[k] ELSE clock]]

Registered(uid, monitor) == [mon |-> monitors, ts |-> tstamps]

register_monitor(uid, monitor) ==
    /\ Usable
    /\ IF RegisterRaises(monitor)
       THEN UNCHANGED <<monitors, regs, tstamps>>
       ELSE /\ monitors' = Registered(uid, monitor).mon
            /\ tstamps' = Registered(uid, monitor).ts
            /\ regs' = monitor
    /\ UNCHANGED <<clock, obj, timeout, interval, beat_cb, term_cb, term, alive,
                   signals, wpc, wake, now, todo, cur, ret, wregs, origin, beaten, outcome,
                   nFatal, lock, nbeat, waitvars, lfvars, loop2vars>>

\* Heartbeat.start (124-129), called once
start ==
    /\ Usable
    /\ wpc = "idle"
    /\ wpc' = "w_init"
    /\ UNCHANGED <<clock, obj, timeout, interval, beat_cb, term_cb, term, tstamps,
                   monitors, alive, signals, wake, now, todo, cur, ret,
                   regs, wregs, origin, beaten, outcome, nFatal, lock, nbeat, waitvars, lfvars, loop2vars>>

\* Heartbeat.stop (134-136)
stop ==
    /\ Usable
    /\ term' = TRUE
    /\ UNCHANGED <<clock, obj, timeout, interval, beat_cb, term_cb, tstamps, monitors,
                   alive, signals, wpc, wake, now, todo, cur, ret,
                   regs, wregs, origin, beaten, outcome, nFatal, lock, nbeat, waitvars, lfvars, loop2vars>>

\* Heartbeat.beat (227-237)
BeatStamp(timestamp) == IF timestamp = None \/ timestamp = 0 THEN clock ELSE timestamp

BeatUid(uid) == IF uid = PyNone \/ uid = PyEmpty THEN "default" ELSE uid

Beaten(u, t) == [k \in DOMAIN tstamps \cup {u} |-> IF k = u THEN t ELSE tstamps[k]]

\* history: "beat_ts" a beat with a timestamp other than the current time;
\* "beat_now" a beat stamped with the current time; "beat_pair" when the beat before
\* it was one too and less than the timeout earlier
BeatOrigin(u, t) ==
    IF t # clock THEN "beat_ts"
    ELSE IF /\ origin[u] \in {"beat_now", "beat_pair"}
            /\ Truthy(timeout)
            /\ clock - tstamps[u] < timeout
         THEN "beat_pair"
         ELSE "beat_now"

beat(uid, timestamp) ==
    /\ Usable
    /\ lock = "free"
    /\ LET u == BeatUid(uid)
           t == BeatStamp(timestamp)
       IN  /\ tstamps' = Beaten(u, t)
           /\ origin' = [origin EXCEPT ![u] = BeatOrigin(u, t)]
           /\ beaten' = beaten \cup {u}
    /\ UNCHANGED <<clock, obj, timeout, interval, beat_cb, term_cb, term, monitors, alive,
                   signals, wpc, wake, now, todo, cur, ret, regs, wregs, outcome,
                   nFatal, lock, nbeat, waitvars, lfvars, loop2vars>>

-----------------------------------------------------------------------------
\* Heartbeat.wait_startup (261-298) and Heartbeat.dump (151-155)

\* the uids argument, as the list as_list makes of it (empty when omitted), and
\* the timeout argument
WaitUidArgs  == {<<>>, <<"w">>, <<"default", "w">>, <<"w", "default">>}
WaitTimeouts == {None, 0, 1}
\* the uids that beat while a caller waits; "default" enters the table as the
\* replacement uid of a recovery
WaitBeatUids == {"w"}

\* a return value: None, or a list of uids
RetNone     == [kind |-> "None", val |-> <<>>]
RetList(l)  == [kind |-> "list", val |-> l]
NoReturn    == [kind |-> "-", val |-> <<>>]

\* 267-268: if not uids: uids = ['default']
WaitUids(uids) == IF uids = <<>> THEN <<"default">> ELSE uids

\* 267-273: the call, up to the first poll
wait_startup(uids, to) ==
    /\ Usable
    /\ wspc = "idle"
    /\ wsuids' = WaitUids(uids)
    /\ wsto' = to
    /\ wsstart' = clock
    /\ wsok' = <<>>
    /\ wsret' = NoReturn
    /\ wspc' = "ws_poll"
    /\ UNCHANGED <<clock, obj, timeout, interval, beat_cb, term_cb, term, tstamps,
                   monitors, alive, signals, wpc, wake, now, todo, cur, ret, regs,
                   wregs, origin, beaten, outcome, nFatal, lock, nbeat, dumped, lfvars, loop2vars>>

\* 277: self._tstamps.get(uid) is true
Seen(uid) == uid \in DOMAIN tstamps /\ tstamps[uid] # 0

InList(x, l) == \E i \in 1 .. Len(l) : l[i] = x

\* 277: ok = [uid for uid in uids if self._tstamps.get(uid)]
Ok(uids) == SelectSeq(uids, LAMBDA uid : Seen(uid))

\* 278, 293: nok = [uid for uid in uids if uid not in ok]
NokAll(uids, ok) == uids

Nok(uids, ok) == SelectSeq(uids, LAMBDA uid : ~InList(uid, ok))

\* 285-286: if timeout: if time.time() - start > timeout
WaitExpiredLate(to, since) == Truthy(to) /\ clock - since > to + 1

WaitExpired(to, since) == Truthy(to) /\ clock - since > to

\* 276-298: one poll under the lock, then break and return, or time.sleep(0.05)
WsPoll ==
    /\ alive /\ wspc = "ws_poll"
    /\ lock = "free"
    /\ LET ok == Ok(wsuids) IN
        /\ wsok' = ok
        /\ IF Len(ok) = Len(wsuids)
           THEN wspc' = "idle" /\ wsret' = RetNone
           ELSE IF WaitExpired(wsto, wsstart)
                THEN wspc' = "idle" /\ wsret' = RetList(Nok(wsuids, ok))
                ELSE wspc' = "ws_sleep" /\ UNCHANGED wsret
    /\ UNCHANGED <<clock, obj, timeout, interval, beat_cb, term_cb, term, tstamps,
                   monitors, alive, signals, wpc, wake, now, todo, cur, ret, regs,
                   wregs, origin, beaten, outcome, nFatal, lock, nbeat,
                   wsuids, wsto, wsstart, dumped, lfvars, loop2vars>>

\* 290: time.sleep(0.05) is over; the sleep is shorter than a time unit, it may
\* end before the clock moves
WsWake ==
    /\ alive /\ wspc = "ws_sleep"
    /\ wspc' = "ws_poll"
    /\ UNCHANGED <<clock, obj, timeout, interval, beat_cb, term_cb, term, tstamps,
                   monitors, alive, signals, wpc, wake, now, todo, cur, ret, regs,
                   wregs, origin, beaten, outcome, nFatal, lock, nbeat,
                   wsuids, wsto, wsstart, wsok, wsret, dumped, lfvars, loop2vars>>

\* 151-155: dump(log) hands pprint.pformat(self._tstamps) to the logger; it reads
\* the table without the lock
Dumped(table) == [done |-> TRUE, table |-> table]

dumpClears ==
    /\ Usable
    /\ dumped' = Dumped(tstamps)
    /\ tstamps' = <<>>
    /\ UNCHANGED <<clock, obj, timeout, interval, beat_cb, term_cb, term,
                   monitors, alive, signals, wpc, wake, now, todo, cur, ret, regs,
                   wregs, origin, beaten, outcome, nFatal, lock, nbeat,
                   wspc, wsuids, wsto, wsstart, wsok, wsret, lfvars, loop2vars>>

dump ==
    /\ Usable
    /\ dumped' = Dumped(tstamps)
    /\ UNCHANGED <<clock, obj, timeout, interval, beat_cb, term_cb, term, tstamps,
                   monitors, alive, signals, wpc, wake, now, todo, cur, ret, regs,
                   wregs, origin, beaten, outcome, nFatal, lock, nbeat,
                   wspc, wsuids, wsto, wsstart, wsok, wsret, lfvars, loop2vars>>

InitWait ==
    /\ wspc = "idle"
    /\ wsuids = <<>> /\ wsto = None /\ wsstart = 0 /\ wsok = <<>>
    /\ wsret = NoReturn
    /\ dumped = [done |-> FALSE, table |-> <<>>]

-----------------------------------------------------------------------------
\* The watcher thread: Heartbeat._watch (160-222)

Frame == <<clock, obj, timeout, interval, beat_cb, term_cb, term, monitors, regs, waitvars, lfvars, loop2vars>>

NoOutcome == [k \in Keys |-> "-"]

\* a callback is user code: it returns or raises; an exception leaves _watch
\* and ends the thread
CallbackOutcomes == {"returns", "raises"}

\* 163-164: initial heartbeat without delay
WInit ==
    /\ alive /\ wpc = "w_init"
    /\ IF beat_cb
       THEN \E o \in CallbackOutcomes : wpc' = IF o = "raises" THEN "w_crash" ELSE "w_loop"
       ELSE wpc' = "w_loop"
    /\ UNCHANGED <<Frame, lock, nbeat, tstamps, alive, signals, wake, now, todo, cur, ret,
                   wregs, origin, beaten, outcome, nFatal>>

\* 166-168: loop condition, then time.sleep(self._interval) begins
WLoopIgnoresStop ==
    /\ alive /\ wpc = "w_loop"
    /\ wpc' = "w_sleep" /\ wake' = clock + interval
    /\ UNCHANGED <<Frame, lock, nbeat, tstamps, alive, signals, now, todo, cur, ret,
                   wregs, origin, beaten, outcome, nFatal>>

WLoop ==
    /\ alive /\ wpc = "w_loop"
    /\ IF term
       THEN wpc' = "w_exit" /\ UNCHANGED wake
       ELSE wpc' = "w_sleep" /\ wake' = clock + interval
    /\ UNCHANGED <<Frame, lock, nbeat, tstamps, alive, signals, now, todo, cur, ret,
                   wregs, origin, beaten, outcome, nFatal>>

\* 168-169: the sleep is over, now = time.time()
WWake ==
    /\ alive /\ wpc = "w_sleep"
    /\ clock >= wake
    /\ now' = clock
    /\ wake' = 0
    /\ wpc' = IF beat_cb THEN "w_beat" ELSE "w_snap"
    /\ wregs' = regs
    /\ outcome' = NoOutcome
    /\ nbeat' = 0
    /\ UNCHANGED <<Frame, lock, tstamps, alive, signals, todo, cur, ret, origin, beaten, nFatal>>

\* 171-172: self._beat_cb()
WBeatCbAgain ==
    /\ alive /\ wpc = "w_beat"
    /\ wpc' \in {"w_beat", "w_snap"}
    /\ nbeat' = nbeat + 1
    /\ UNCHANGED <<Frame, lock, tstamps, alive, signals, wake, now, todo, cur, ret,
                   wregs, origin, beaten, outcome, nFatal>>

WBeatCb ==
    /\ alive /\ wpc = "w_beat"
    /\ \E o \in CallbackOutcomes : wpc' = IF o = "raises" THEN "w_crash" ELSE "w_snap"
    /\ nbeat' = nbeat + 1
    /\ UNCHANGED <<Frame, lock, tstamps, alive, signals, wake, now, todo, cur, ret,
                   wregs, origin, beaten, outcome, nFatal>>

\* 175, 182, 220: with self._lock: the watcher takes the lock of the block it
\* is about to run
AtLockedBlockOrCallback ==
    wpc = "w_snap" \/ (wpc = "w_for" /\ todo # {}) \/ wpc = "w_recover" \/ wpc = "w_cb"

AtLockedBlock == wpc = "w_snap" \/ (wpc = "w_for" /\ todo # {}) \/ wpc = "w_recover"

WLock ==
    /\ alive /\ AtLockedBlock
    /\ lock = "free"
    /\ lock' = "watcher"
    /\ UNCHANGED <<Frame, tstamps, alive, signals, wpc, wake, now, todo, cur, ret,
                   wregs, origin, beaten, outcome, nFatal, nbeat>>

\* 175-176: uids = list(self._tstamps.keys()), under the lock
SnapshotOfAllKeys == Keys

Snapshot == DOMAIN tstamps

WSnap ==
    /\ alive /\ wpc = "w_snap"
    /\ lock = "watcher" /\ lock' = "free"
    /\ todo' = Snapshot
    /\ wpc' = "w_for"
    /\ UNCHANGED <<Frame, nbeat, tstamps, alive, signals, wake, now, cur, ret,
                   wregs, origin, beaten, outcome, nFatal>>

\* 189: now - last > self._timeout, for a numeric timeout
TimedOutNoLast(n, l, t) == n > t

TimedOut(n, l, t) == n - l > t

\* 189 with self._timeout = None: Python 2 orders None below every number (the
\* comparison is True), Python 3 raises TypeError
NoneCompare == {"true", "TypeError"}

\* 178: the for loop is exhausted, back to the loop condition
WForEnd ==
    /\ alive /\ wpc = "w_for"
    /\ todo = {}
    /\ wpc' = "w_loop"
    /\ now' = 0
    /\ UNCHANGED <<Frame, lock, nbeat, tstamps, alive, signals, wake, todo, cur, ret,
                   wregs, origin, beaten, outcome, nFatal>>

\* 178-193: next uid of the snapshot (dict order: any), last = self._tstamps.get(uid)
\* under the lock, then the 'never seen' and the timeout tests
ExamineFresh(uid) == {"false"}

Examine(uid) ==
    IF uid \notin DOMAIN tstamps THEN {"never seen"}
    ELSE IF timeout = None THEN NoneCompare
    ELSE IF TimedOut(now, tstamps[uid], timeout) THEN {"true"}
    ELSE {"false"}

WFor ==
    /\ alive /\ wpc = "w_for"
    /\ lock = "watcher" /\ lock' = "free"
    /\ \E uid \in todo :
        /\ todo' = todo \ {uid}
        /\ \E c \in Examine(uid) :
            /\ wpc' = CASE c = "true" -> "w_cb"
                        [] c = "TypeError" -> "w_crash"
                        [] OTHER -> "w_for"
            /\ cur' = IF c \in {"true", "TypeError"} THEN uid ELSE PyNone
            /\ outcome' = IF c = "false" THEN [outcome EXCEPT ![uid] = "ok"] ELSE outcome
    /\ UNCHANGED <<Frame, nbeat, tstamps, alive, signals, wake, now, ret,
                   wregs, origin, beaten, nFatal>>

\* 195-203: ret = None; with a timeout, ret = self._term_cb(uid) if there is
\* a callback; without a timeout (None or 0) ret = True
Answers ==
    IF Truthy(timeout)
    THEN IF term_cb # PyNone THEN TermCbReturns(term_cb) \cup {"raises"} ELSE {PyNone}
    ELSE {PyTrue}

\* 205, 212: if ret is None ... else
Declined(r) == r = PyNone

WCb ==
    /\ alive /\ wpc = "w_cb"
    /\ \E r \in Answers :
        IF r = "raises"
        THEN wpc' = "w_crash" /\ UNCHANGED <<ret, nFatal>>
        ELSE /\ ret' = r
             /\ wpc' = IF Declined(r) THEN "w_term" ELSE "w_recover"
             /\ nFatal' = IF r = PyNone THEN nFatal + 1 ELSE nFatal
    /\ UNCHANGED <<Frame, lock, nbeat, tstamps, alive, signals, wake, now, todo, cur,
                   wregs, origin, beaten, outcome>>

\* os.kill(self._pid, sig): the call is recorded.  The process survives it when
\* os.kill is a recording stub or when it handles SIGTERM; otherwise it ends.
KillNothing(sig) == signals

Kill(sig) == Append(signals, [sig |-> sig, pid |-> OwnPid, at |-> clock])

Survives(sig) == {TRUE, FALSE}

\* 209: time.sleep(1)
GracePeriod == 1

\* 205-209: could not recover: log, os.kill(SIGTERM), time.sleep(1) begins
FirstSignal == SIGTERM

WTerm ==
    /\ alive /\ wpc = "w_term"
    /\ signals' = Kill(FirstSignal)
    /\ alive' \in Survives(FirstSignal)
    /\ wake' = clock + GracePeriod
    /\ wpc' = "w_grace"
    /\ outcome' = [outcome EXCEPT ![cur] = "term"]
    /\ UNCHANGED <<Frame, lock, nbeat, tstamps, now, todo, cur, ret, wregs, origin, beaten, nFatal>>

\* 209-210: the sleep is over, os.kill(SIGKILL); next uid
SecondSignalTerm == SIGTERM

SecondSignal == SIGKILL

WKill ==
    /\ alive /\ wpc = "w_grace"
    /\ clock >= wake
    /\ signals' = Kill(SecondSignal)
    /\ alive' \in Survives(SecondSignal)
    /\ wake' = 0
    /\ wpc' = "w_for"
    /\ cur' = PyNone /\ ret' = PyNone
    /\ UNCHANGED <<Frame, lock, nbeat, tstamps, now, todo, wregs, origin, beaten, outcome, nFatal>>

\* 220-222: under the lock, del self._tstamps[uid]; self._tstamps[ret] = time.time()
RecoveredKeepsStamp(uid, r) ==
    [k \in (DOMAIN tstamps \ {uid}) \cup {r} |-> IF k = r THEN tstamps[uid] ELSE tstamps[k]]

RecoveredUnlessFresh(uid, r) ==
    [k \in (DOMAIN tstamps \ (IF now - tstamps[uid] > timeout THEN {uid} ELSE {})) \cup {r} |->
        IF k = r THEN clock ELSE tstamps[k]]

Recovered(uid, r) ==
    [k \in (DOMAIN tstamps \ {uid}) \cup {r} |-> IF k = r THEN clock ELSE tstamps[k]]

WRecover ==
    /\ alive /\ wpc = "w_recover"
    /\ lock = "watcher" /\ lock' = "free"
    /\ IF cur \notin DOMAIN tstamps
       THEN \* del raises KeyError
            wpc' = "w_crash" /\ UNCHANGED <<tstamps, origin, outcome, cur, ret>>
       ELSE /\ tstamps' = Recovered(cur, ret)
            /\ origin' = [k \in Keys |-> IF k \in DOMAIN tstamps' 
                                         THEN (IF k = ret THEN "rec" ELSE origin[k])
                                         ELSE "gone"]
            /\ outcome' = [outcome EXCEPT ![cur] = "rec"]
            /\ wpc' = "w_for"
            /\ cur' = PyNone /\ ret' = PyNone
    /\ UNCHANGED <<Frame, nbeat, alive, signals, wake, now, todo, wregs, beaten, nFatal>>

\* The recovery step statement by statement: 220-221, with self._lock: del
\* self._tstamps[uid]; the lock stays held
Deleted(uid) == [k \in DOMAIN tstamps \ {uid} |-> tstamps[k]]

WDeleteUnlocks ==
    /\ alive /\ wpc = "w_recover"
    /\ lock = "watcher" /\ lock' = "free"
    /\ IF cur \notin DOMAIN tstamps
       THEN wpc' = "w_crash" /\ UNCHANGED tstamps
       ELSE tstamps' = Deleted(cur) /\ wpc' = "w_insert"
    /\ UNCHANGED <<Frame, nbeat, alive, signals, wake, now, todo, cur, ret,
                   wregs, origin, beaten, outcome, nFatal>>

WDelete ==
    /\ alive /\ wpc = "w_recover"
    /\ lock = "watcher"
    /\ IF cur \notin DOMAIN tstamps
       THEN \* del raises KeyError, the with-block releases the lock
            wpc' = "w_crash" /\ lock' = "free" /\ UNCHANGED tstamps
       ELSE tstamps' = Deleted(cur) /\ wpc' = "w_insert" /\ UNCHANGED lock
    /\ UNCHANGED <<Frame, nbeat, alive, signals, wake, now, todo, cur, ret,
                   wregs, origin, beaten, outcome, nFatal>>

\* 222: self._tstamps[ret] = time.time(), and the with-block ends
WInsert ==
    /\ alive /\ wpc = "w_insert"
    /\ lock' = "free"
    /\ tstamps' = Recovered(cur, ret)
    /\ origin' = [k \in Keys |-> IF k \in DOMAIN tstamps'
                                 THEN (IF k = ret THEN "rec" ELSE origin[k])
                                 ELSE "gone"]
    /\ outcome' = [outcome EXCEPT ![cur] = "rec"]
    /\ wpc' = "w_for"
    /\ cur' = PyNone /\ ret' = PyNone
    /\ UNCHANGED <<Frame, nbeat, alive, signals, wake, now, todo, wregs, beaten, nFatal>>

WatcherBySteps == WInit \/ WLoop \/ WWake \/ WBeatCb \/ WLock \/ WSnap \/ WForEnd \/ WFor
                  \/ WCb \/ WTerm \/ WKill \/ WDelete \/ WInsert

Watcher == WInit \/ WLoop \/ WWake \/ WBeatCb \/ WLock \/ WSnap \/ WForEnd \/ WFor
           \/ WCb \/ WTerm \/ WKill \/ WRecover

-----------------------------------------------------------------------------
\* A second call of start() (124-129): start does not test whether a watcher
\* runs, it spawns another thread that runs _watch on the same table, with the
\* same lock and the same stop flag.  Each of its with-blocks is one step, taken
\* when the lock is free.
Loop2Frame == <<clock, obj, timeout, interval, beat_cb, term_cb, term, monitors, regs,
                wpc, wake, now, todo, cur, ret, wregs, beaten, outcome, nFatal,
                lock, nbeat, waitvars, lfvars>>

InitLoop2 ==
    /\ wpc2 = "idle"
    /\ wake2 = 0 /\ now2 = 0 /\ todo2 = {} /\ cur2 = PyNone /\ ret2 = PyNone

start_again ==
    /\ Usable
    /\ wpc # "idle" /\ wpc2 = "idle"
    /\ wpc2' = "w_init"
    /\ UNCHANGED <<Loop2Frame, tstamps, origin, alive, signals, wake2, now2, todo2, cur2, ret2>>

\* 163-164
W2Init ==
    /\ alive /\ wpc2 = "w_init"
    /\ IF beat_cb
       THEN \E o \in CallbackOutcomes : wpc2' = IF o = "raises" THEN "w_crash" ELSE "w_loop"
       ELSE wpc2' = "w_loop"
    /\ UNCHANGED <<Loop2Frame, tstamps, origin, alive, signals, wake2, now2, todo2, cur2, ret2>>

\* 166-168
W2Loop ==
    /\ alive /\ wpc2 = "w_loop"
    /\ IF term
       THEN wpc2' = "w_exit" /\ UNCHANGED wake2
       ELSE wpc2' = "w_sleep" /\ wake2' = clock + interval
    /\ UNCHANGED <<Loop2Frame, tstamps, origin, alive, signals, now2, todo2, cur2, ret2>>

\* 168-169
W2Wake ==
    /\ alive /\ wpc2 = "w_sleep"
    /\ clock >= wake2
    /\ now2' = clock
    /\ wake2' = 0
    /\ wpc2' = IF beat_cb THEN "w_beat" ELSE "w_snap"
    /\ UNCHANGED <<Loop2Frame, tstamps, origin, alive, signals, todo2, cur2, ret2>>

\* 171-172
W2BeatCb ==
    /\ alive /\ wpc2 = "w_beat"
    /\ \E o \in CallbackOutcomes : wpc2' = IF o = "raises" THEN "w_crash" ELSE "w_snap"
    /\ UNCHANGED <<Loop2Frame, tstamps, origin, alive, signals, wake2, now2, todo2, cur2, ret2>>

\* 175-176
W2Snap ==
    /\ alive /\ wpc2 = "w_snap"
    /\ lock = "free"
    /\ todo2' = Snapshot
    /\ wpc2' = "w_for"
    /\ UNCHANGED <<Loop2Frame, tstamps, origin, alive, signals, wake2, now2, cur2, ret2>>

\* 178
W2ForEnd ==
    /\ alive /\ wpc2 = "w_for"
    /\ todo2 = {}
    /\ wpc2' = "w_loop"
    /\ now2' = 0
    /\ UNCHANGED <<Loop2Frame, tstamps, origin, alive, signals, wake2, todo2, cur2, ret2>>

\* 178-193, with this thread's now
Examine2(uid) ==
    IF uid \notin DOMAIN tstamps THEN {"never seen"}
    ELSE IF timeout = None THEN NoneCompare
    ELSE IF TimedOut(now2, tstamps[uid], timeout) THEN {"true"}
    ELSE {"false"}

W2For ==
    /\ alive /\ wpc2 = "w_for"
    /\ lock = "free"
    /\ \E uid \in todo2 :
        /\ todo2' = todo2 \ {uid}
        /\ \E c \in Examine2(uid) :
            /\ wpc2' = CASE c = "true" -> "w_cb"
                         [] c = "TypeError" -> "w_crash"
                         [] OTHER -> "w_for"
            /\ cur2' = IF c \in {"true", "TypeError"} THEN uid ELSE PyNone
    /\ UNCHANGED <<Loop2Frame, tstamps, origin, alive, signals, wake2, now2, ret2>>

\* 195-205, 212
W2Cb ==
    /\ alive /\ wpc2 = "w_cb"
    /\ \E r \in Answers :
        IF r = "raises"
        THEN wpc2' = "w_crash" /\ UNCHANGED ret2
        ELSE /\ ret2' = r
             /\ wpc2' = IF Declined(r) THEN "w_term" ELSE "w_recover"
    /\ UNCHANGED <<Loop2Frame, tstamps, origin, alive, signals, wake2, now2, todo2, cur2>>

\* 205-209
W2Term ==
    /\ alive /\ wpc2 = "w_term"
    /\ signals' = Kill(FirstSignal)
    /\ alive' \in Survives(FirstSignal)
    /\ wake2' = clock + GracePeriod
    /\ wpc2' = "w_grace"
    /\ UNCHANGED <<Loop2Frame, tstamps, origin, now2, todo2, cur2, ret2>>

\* 209-210
W2Kill ==
    /\ alive /\ wpc2 = "w_grace"
    /\ clock >= wake2
    /\ signals' = Kill(SecondSignal)
    /\ alive' \in Survives(SecondSignal)
    /\ wake2' = 0
    /\ wpc2' = "w_for"
    /\ cur2' = PyNone /\ ret2' = PyNone
    /\ UNCHANGED <<Loop2Frame, tstamps, origin, now2, todo2>>

\* 220-222
W2Recover ==
    /\ alive /\ wpc2 = "w_recover"
    /\ lock = "free"
    /\ IF cur2 \notin DOMAIN tstamps
       THEN \* del raises KeyError
            wpc2' = "w_crash" /\ UNCHANGED <<tstamps, origin, cur2, ret2>>
       ELSE /\ tstamps' = Recovered(cur2, ret2)
            /\ origin' = [k \in Keys |-> IF k \in DOMAIN tstamps'
                                         THEN (IF k = ret2 THEN "rec" ELSE origin[k])
                                         ELSE "gone"]
            /\ wpc2' = "w_for"
            /\ cur2' = PyNone /\ ret2' = PyNone
    /\ UNCHANGED <<Loop2Frame, alive, signals, wake2, now2, todo2>>

Watcher2 == W2Init \/ W2Loop \/ W2Wake \/ W2BeatCb \/ W2Snap \/ W2ForEnd \/ W2For
            \/ W2Cb \/ W2Term \/ W2Kill \/ W2Recover

-----------------------------------------------------------------------------
\* Lockfile (lockfile.py 11-184): Lockfile objects in one process, each used by
\* a thread of its own, on files locked with flock.  The module is Python 2
\* code (print statements): fcntl.flock raises IOError when the lock is busy.

\* the objects and the file name each was constructed with
Lockfiles == {"a", "b", "c"}
Files     == {"f", "g"}
FileOf(o) == IF o = "c" THEN "g" ELSE "f"

\* file descriptors: os.open returns the lowest one not in use; the standard
\* streams 0, 1 and 2 are open
NoFd == -1
Fds  == 3 .. 5

\* the timeout argument of acquire
LockTimeouts == {None, 1}

\* all the monitor's variables but the clock
hbvars == <<obj, timeout, interval, beat_cb, term_cb, term, tstamps, monitors,
            alive, signals, wpc, wake, now, todo, cur, ret,
            regs, wregs, origin, beaten, outcome, nFatal, lock, nbeat, waitvars, loop2vars>>

\* 47-51: __init__
InitLockfile ==
    /\ lf_fd    = [o \in Lockfiles |-> NoFd]
    /\ lf_tlock = [o \in Lockfiles |-> FALSE]
    /\ lf_pc    = [o \in Lockfiles |-> "idle"]
    /\ lf_to    = [o \in Lockfiles |-> None]
    /\ lf_start = [o \in Lockfiles |-> 0]
    /\ lf_wake  = [o \in Lockfiles |-> 0]
    /\ lf_res   = [o \in Lockfiles |-> "-"]
    /\ flocks   = [f \in Files |-> NoFd]

\* 78, 119, 129, 141: the truth value of self._fd
FdTrueAlways(fd) == TRUE

FdTrue(fd) == fd # NoFd /\ fd # 0

\* 87: os.open
OpenFds == {lf_fd[o] : o \in Lockfiles} \ {NoFd}

OsOpen == CHOOSE fd \in Fds \ OpenFds : \A other \in Fds \ OpenFds : fd <= other

\* 89: fcntl.flock(fd, LOCK_EX | LOCK_NB) on a newly opened file succeeds when
\* no other open file holds the flock of that file
FlockGrantedAlways(f) == TRUE

FlockGranted(f) == flocks[f] = NoFd

\* how an operation ends
Returned    == "ok"
OpenTwice   == "RuntimeError: cannot call open twice"
LockTimeout == "RuntimeError: lock timeout"
FailedLock  == "RuntimeError: failed to lock"
NotOpen     == "ValueError: lockfile is not open"
RuntimeErrors == {OpenTwice, LockTimeout, FailedLock}

\* 71-82: acquire(timeout) takes self._tlock and tests self._fd
acquire(o, to) ==
    /\ lf_pc[o] = "idle" /\ ~lf_tlock[o]
    /\ IF FdTrue(lf_fd[o])
       THEN /\ lf_res' = [lf_res EXCEPT ![o] = OpenTwice]
            /\ UNCHANGED <<lf_tlock, lf_pc, lf_to, lf_start>>
       ELSE /\ lf_tlock' = [lf_tlock EXCEPT ![o] = TRUE]
            /\ lf_pc' = [lf_pc EXCEPT ![o] = "try"]
            /\ lf_to' = [lf_to EXCEPT ![o] = to]
            /\ lf_start' = [lf_start EXCEPT ![o] = clock]
            /\ lf_res' = [lf_res EXCEPT ![o] = "-"]
    /\ UNCHANGED <<clock, hbvars, lf_fd, lf_wake, flocks>>

\* 85-120: one round of the loop: open the file and try the flock; on success
\* keep the descriptor and return; else close it and give up (no timeout), raise
\* (timeout run out) or sleep
LfTry(o) ==
    /\ lf_pc[o] = "try"
    /\ IF FlockGranted(FileOf(o))
       THEN /\ lf_fd' = [lf_fd EXCEPT ![o] = OsOpen]
            /\ flocks' = [flocks EXCEPT ![FileOf(o)] = OsOpen]
            /\ lf_res' = [lf_res EXCEPT ![o] = IF FdTrue(OsOpen) THEN Returned ELSE FailedLock]
            /\ lf_pc' = [lf_pc EXCEPT ![o] = "idle"]
            /\ lf_tlock' = [lf_tlock EXCEPT ![o] = FALSE]
            /\ UNCHANGED lf_wake
       ELSE /\ UNCHANGED <<lf_fd, flocks>>
            /\ IF lf_to[o] = None
               THEN /\ lf_res' = [lf_res EXCEPT ![o] = FailedLock]
                    /\ lf_pc' = [lf_pc EXCEPT ![o] = "idle"]
                    /\ lf_tlock' = [lf_tlock EXCEPT ![o] = FALSE]
                    /\ UNCHANGED lf_wake
               ELSE IF clock - lf_start[o] > lf_to[o]
                    THEN /\ lf_res' = [lf_res EXCEPT ![o] = LockTimeout]
                         /\ lf_pc' = [lf_pc EXCEPT ![o] = "idle"]
                         /\ lf_tlock' = [lf_tlock EXCEPT ![o] = FALSE]
                         /\ UNCHANGED lf_wake
                    ELSE /\ lf_pc' = [lf_pc EXCEPT ![o] = "sleep"]
                         /\ lf_wake' = [lf_wake EXCEPT ![o] = 1]
                         /\ UNCHANGED <<lf_res, lf_tlock>>
    /\ UNCHANGED <<clock, hbvars, lf_to, lf_start>>

\* 116: time.sleep(0.1) is over; the sleep is shorter than a time unit
LfWake(o) ==
    /\ lf_pc[o] = "sleep"
    /\ lf_pc' = [lf_pc EXCEPT ![o] = "try"]
    /\ lf_wake' = [lf_wake EXCEPT ![o] = 0]
    /\ UNCHANGED <<clock, hbvars, lf_fd, lf_tlock, lf_to, lf_start, lf_res, flocks>>

\* 125-132: locked()
locked(o) ==
    /\ lf_pc[o] = "idle" /\ ~lf_tlock[o]
    /\ lf_res' = [lf_res EXCEPT ![o] = IF FdTrue(lf_fd[o]) THEN "True" ELSE "False"]
    /\ UNCHANGED <<clock, hbvars, lf_fd, lf_tlock, lf_pc, lf_to, lf_start, lf_wake, flocks>>

\* 137-147: release()
release(o) ==
    /\ lf_pc[o] = "idle" /\ ~lf_tlock[o]
    /\ IF ~FdTrue(lf_fd[o])
       THEN /\ lf_res' = [lf_res EXCEPT ![o] = NotOpen]
            /\ UNCHANGED <<lf_fd, flocks>>
       ELSE /\ flocks' = [flocks EXCEPT ![FileOf(o)] =
                              IF @ = lf_fd[o] THEN NoFd ELSE @]
            /\ lf_fd' = [lf_fd EXCEPT ![o] = NoFd]
            /\ lf_res' = [lf_res EXCEPT ![o] = Returned]
    /\ UNCHANGED <<clock, hbvars, lf_tlock, lf_pc, lf_to, lf_start, lf_wake>>

\* 152-184: read(length), write(data), lseek(pos, how) and seek(pos, how), which
\* calls lseek; none takes self._tlock
IoOps == {"read", "write", "lseek", "seek"}

io(o, op) ==
    /\ op \in IoOps
    /\ lf_res' = [lf_res EXCEPT ![o] = IF ~FdTrue(lf_fd[o]) THEN NotOpen ELSE Returned]
    /\ UNCHANGED <<clock, hbvars, lf_fd, lf_tlock, lf_pc, lf_to, lf_start, lf_wake, flocks>>

-----------------------------------------------------------------------------
\* time passes
Tick ==
    /\ clock < MaxTime
    /\ clock' = clock + 1
    /\ UNCHANGED <<obj, timeout, interval, beat_cb, term_cb, term, tstamps, monitors,
                   alive, signals, wpc, wake, now, todo, cur, ret,
                   regs, wregs, origin, beaten, outcome, nFatal, lock, nbeat, waitvars, lfvars, loop2vars>>

Init ==
    /\ clock = 1
    /\ obj = "unborn"
    /\ timeout = None /\ interval = 1 /\ beat_cb = FALSE /\ term_cb = PyNone
    /\ term = FALSE
    /\ tstamps = <<>>
    /\ monitors = <<>>
    /\ alive = TRUE
    /\ signals = <<>>
    /\ wpc = "idle"
    /\ wake = 0 /\ now = 0 /\ todo = {} /\ cur = PyNone /\ ret = PyNone
    /\ regs = PyNone /\ wregs = PyNone
    /\ origin = [k \in Keys |-> "none"]
    /\ beaten = {}
    /\ outcome = NoOutcome
    /\ nFatal = 0
    /\ lock = "free"
    /\ nbeat = 0
    /\ InitWait
    /\ InitLockfile
    /\ InitLoop2

\* the caller constructs the monitor
Construct(configs) == \E c \in configs : New(c[1], c[2], c[3], c[4])

Register == \E u \in MonUids, m \in Detectors : register_monitor(u, m)

Beat == \E u \in UidArgs, t \in TsArgs : beat(u, t)

\* The monitor without detectors
Next ==
    \/ Construct(Configs)
    \/ start
    \/ stop
    \/ Beat
    \/ Watcher
    \/ Tick

Spec == Init /\ [][Next]_vars

\* The monitor with register_monitor
NextMon ==
    \/ Construct(MonConfigs)
    \/ Register
    \/ start
    \/ stop
    \/ Beat
    \/ Watcher
    \/ Tick

SpecMon == Init /\ [][NextMon]_vars

\* The Lockfile objects
Acquire == \E o \in Lockfiles, to \in LockTimeouts : acquire(o, to)

AcquireLoop == \E o \in Lockfiles : LfTry(o) \/ LfWake(o)

Locked == \E o \in Lockfiles : locked(o)

Release == \E o \in Lockfiles : release(o)

Io == \E o \in Lockfiles, op \in IoOps : io(o, op)

NextLockfile ==
    \/ Acquire
    \/ AcquireLoop
    \/ Locked
    \/ Release
    \/ Io
    \/ Tick

SpecLockfile == Init /\ [][NextLockfile]_vars

\* The monitor with wait_startup and dump.  Its threads are scheduled: the
\* watcher and the thread inside wait_startup take their next step when they can,
\* and time passes.
WaitConfigs == {1} \X {1} \X {TRUE} \X {"ret_uid"}

WaitStartup == \E uids \in WaitUidArgs, to \in WaitTimeouts : wait_startup(uids, to)

Waiter == WsPoll \/ WsWake

\* the watched entity beats, stamped with the current time
BeatNow == \E u \in WaitBeatUids : beat(u, None)

NextWait ==
    \/ Construct(WaitConfigs)
    \/ start
    \/ stop
    \/ BeatNow
    \/ WaitStartup
    \/ Waiter
    \/ dump
    \/ Watcher
    \/ Tick

SpecWait ==
    /\ Init /\ [][NextWait]_vars
    /\ WF_vars(Watcher) /\ WF_vars(Waiter) /\ WF_vars(Tick)

\* The monitor with the recovery step taken statement by statement; the watched
\* entity beats with the current time or with a timestamp of the past
RecoveryWaitArgs == {<<"default">>, <<"w">>} \X {None}

WaitStartupRecovery == \E a \in RecoveryWaitArgs : wait_startup(a[1], a[2])

BeatPast == \E u \in WaitBeatUids : beat(u, -2)

NextRecovery ==
    \/ Construct(WaitConfigs)
    \/ start
    \/ stop
    \/ BeatNow
    \/ BeatPast
    \/ WaitStartupRecovery
    \/ Waiter
    \/ dump
    \/ WatcherBySteps
    \/ Tick

SpecRecovery == Init /\ [][NextRecovery]_vars

\* The monitor whose start() may be called a second time
LoopWaitArgs == {<<"w">>} \X {None}

WaitStartupLoops == \E a \in LoopWaitArgs : wait_startup(a[1], a[2])

NextLoops ==
    \/ Construct(WaitConfigs)
    \/ start
    \/ start_again
    \/ stop
    \/ BeatNow
    \/ WaitStartupLoops
    \/ Waiter
    \/ dump
    \/ Watcher
    \/ Watcher2
    \/ Tick

SpecLoops == Init /\ [][NextLoops]_vars

-----------------------------------------------------------------------------
\* Steps of the watcher, as seen from outside

\* the watcher decides that u is timed out (line 189 is true)
DecidesTimeout(u) == wpc = "w_for" /\ wpc' \in {"w_cb", "w_crash"} /\ cur' = u

\* the watcher invokes the recovery callback for u (line 199)
InvokesTermCb(u) ==
    wpc = "w_cb" /\ wpc' # "w_cb" /\ cur = u /\ Truthy(timeout) /\ term_cb # PyNone

\* the watcher sends the first termination signal for u (line 208)
SendsSigterm(u) == wpc = "w_term" /\ wpc' = "w_grace" /\ cur = u

StartsEscalation(u) == InvokesTermCb(u) \/ SendsSigterm(u)

-----------------------------------------------------------------------------
\* C1 (as claimed): if beat(uid) is called at t and at t+d, d < timeout, both
\* stamped with the current time, the watcher starts no escalation for uid (no
\* recovery-callback invocation, no termination signal) before t+d+timeout.
\* Refuted: an escalation decided on a timestamp read before the beats is
\* carried out after them.
C1_NoEscalationAfterBeats ==
    [][\A u \in Uids :
          (StartsEscalation(u) /\ origin[u] = "beat_pair" /\ u \in DOMAIN tstamps)
              => clock >= tstamps[u] + timeout]_vars

\* C1 (amended): after beats of uid at t and t+d, d < timeout, stamped with the
\* current time, the watcher decides no timeout of uid on the timestamp they
\* wrote in a tick whose `now` is before t+d+timeout.
C1_NoDecisionAfterBeats ==
    [][\A u \in Uids :
          (DecidesTimeout(u) /\ Truthy(timeout) /\ origin[u] = "beat_pair")
              => now >= tstamps[u] + timeout]_vars

\* two timely beats, and later the watcher found the uid timed out
C1_Witness ==
    /\ wpc = "w_cb" /\ Truthy(timeout)
    /\ cur \in Uids /\ origin[cur] = "beat_pair"
    /\ cur \in DOMAIN tstamps /\ now > tstamps[cur] + timeout
-----------------------------------------------------------------------------
\* C2: with no recovery callback, each unrecoverable timeout is followed by
\* exactly one escalation, aimed at the owning process: SIGTERM, then, at least
\* the grace period (one time unit) later, SIGKILL.  The recorded os.kill calls
\* are one SIGTERM/SIGKILL pair per timeout decided, the last pair still being
\* completed while the watcher is inside the escalation.
Pending == CASE wpc = "w_term" -> 2 [] wpc = "w_grace" -> 1 [] OTHER -> 0

C2_EscalationOncePerTimeout ==
    (obj = "ok" /\ term_cb = PyNone) =>
        /\ Len(signals) = 2 * nFatal - Pending
        /\ \A i \in 1 .. Len(signals) :
              /\ signals[i].pid = OwnPid
              /\ signals[i].sig = (IF i % 2 = 1 THEN SIGTERM ELSE SIGKILL)
              /\ (i % 2 = 0) => signals[i].at >= signals[i - 1].at + 1

\* one unrecoverable timeout, its escalation recorded and survived (a stub)
C2_Witness ==
    /\ obj = "ok" /\ term_cb = PyNone /\ Truthy(timeout) /\ alive
    /\ nFatal = 1 /\ Len(signals) = 2 /\ wpc = "w_for"
-----------------------------------------------------------------------------
\* the recovery step of the watcher for failing uid u and callback result v
\* (lines 220-222 have run)
RecoveryStep(u, v) == wpc = "w_recover" /\ wpc' = "w_for" /\ cur = u /\ ret = v

\* C3: when uid u times out and the recovery callback returns a replacement uid
\* v (another uid), then after the recovery step the table has no entry for u
\* and an entry for v stamped with the time of the recovery, not before the start
\* of the tick; no termination signal is sent for u in that tick; and the watcher
\* decides a timeout of v on that entry only when `now` is more than the timeout
\* after the recovery.
C3_RecoveryReplaces ==
    [][\A u \in Uids, v \in Uids :
          /\ (RecoveryStep(u, v) /\ v # u /\ Truthy(timeout)) =>
                /\ u \notin DOMAIN tstamps'
                /\ v \in DOMAIN tstamps'
                /\ tstamps'[v] = clock
                /\ tstamps'[v] >= now
                /\ signals' = signals
                /\ outcome[u] # "term"
          /\ (SendsSigterm(u) /\ Truthy(timeout)) => outcome[u] # "rec"
          /\ (DecidesTimeout(v) /\ Truthy(timeout) /\ origin[v] = "rec") =>
                now - tstamps[v] > timeout]_vars

\* u was replaced by v, and later v, silent since then, is found timed out
C3_Witness ==
    /\ wpc = "w_cb" /\ Truthy(timeout) /\ term_cb = "ret_uid"
    /\ cur \in Uids /\ origin[cur] = "rec"
    /\ \E u \in Uids \ {cur} : origin[u] = "gone"
-----------------------------------------------------------------------------
\* the recovery callback returns r for the timed-out uid u
TermCbReturned(u, r) ==
    /\ wpc = "w_cb" /\ cur = u /\ Truthy(timeout) /\ term_cb # PyNone
    /\ wpc' \in {"w_term", "w_recover"} /\ ret' = r

\* a step of the watcher
WatcherStep == wpc' # wpc \/ todo' # todo

\* C4 (the claim; the code departs from it): when the recovery callback returns
\* an absent or empty result (None, '' or False) for a timed-out uid, the
\* watcher goes on to the termination escalation for it and does not modify the
\* timestamp table for it.
EmptyResults == {PyNone, PyFalse, PyEmpty}

C4_EmptyResultDeclines ==
    [][\A u \in Uids, r \in EmptyResults :
          /\ TermCbReturned(u, r) => wpc' = "w_term"
          /\ (WatcherStep /\ cur = u /\ ret = r /\ wpc \in {"w_term", "w_grace", "w_recover"})
                => tstamps' = tstamps]_vars

\* C5 (the claim; the code departs from it): when the recovery callback returns
\* True for a timed-out uid, no termination signal is sent and the same uid stays
\* in the table with a refreshed timestamp.
C5_TrueKeepsUid ==
    [][\A u \in Uids :
          (RecoveryStep(u, PyTrue) /\ Truthy(timeout) /\ term_cb = "ret_true") =>
              /\ signals' = signals
              /\ u \in DOMAIN tstamps'
              /\ tstamps'[u] = clock]_vars

\* C6 (the claim; the code departs from it): with timeout None no trigger action
\* ever happens: the recovery callback is not invoked, no signal is sent, no uid
\* is found timed out or loses its entry, and the watcher loop is not ended by the
\* examination of a uid.
C6_NoTimeoutNoAction ==
    (obj = "ok" /\ timeout = None) =>
        /\ signals = <<>>
        /\ wpc \notin {"w_cb", "w_term", "w_grace", "w_recover"}
        /\ ~(wpc = "w_crash" /\ cur # PyNone)
        /\ \A k \in Keys : origin[k] \notin {"rec", "gone"}

-----------------------------------------------------------------------------
\* the watcher treats k as timed out: it is in the recovery/termination protocol for it
Escalating(k) == cur = k /\ wpc \in {"w_cb", "w_term", "w_grace", "w_recover"}

-----------------------------------------------------------------------------
\* C8 (as claimed): construction fails exactly when a timeout is set (is not
\* None) and interval > timeout; a failed construction leaves no usable monitor
\* and no watcher.  Refuted by timeout 0, which the code treats as unset.
C8_FailsIffSetAndLarger ==
    [][\A c \in Configs :
          New(c[1], c[2], c[3], c[4]) =>
              /\ (obj' = "error") = (c[1] # None /\ c[2] > c[1])
              /\ obj' = "error" => (~Usable' /\ wpc' = "idle" /\ tstamps' = <<>>)]_vars

\* C8 (amended): construction fails exactly when timeout is neither None nor 0
\* and interval > timeout; a failed construction leaves no usable monitor and
\* no watcher.
C8_FailsIffTruthyAndLarger ==
    [][\A c \in Configs :
          New(c[1], c[2], c[3], c[4]) =>
              /\ (obj' = "error") = (c[1] # None /\ c[1] # 0 /\ c[2] > c[1])
              /\ obj' = "error" => (~Usable' /\ wpc' = "idle" /\ tstamps' = <<>>)]_vars

\* a construction has failed
C8_Witness == obj = "error"

-----------------------------------------------------------------------------
\* the watcher finishes a tick
TickEnds == wpc = "w_for" /\ wpc' = "w_loop"

\* C9 (the claim; the code departs from it): a detector registered before a tick
\* is invoked in it, and when it returns true the tick records a heartbeat for
\* its uid as beat(uid) would: at the end of the tick the uid has an entry.
C9_DetectorBeats ==
    [][\A u \in MonUids :
          (TickEnds /\ wregs = "cb_true") => u \in DOMAIN tstamps]_vars

\* C10 (the claim; the code departs from it): when a detector registered before
\* a tick raises, the recovery/termination protocol is entered for its uid in
\* that tick.
C10_DetectorFailureEscalates ==
    [][\A u \in MonUids :
          (TickEnds /\ wregs = "cb_raise") => outcome[u] \in {"term", "rec"}]_vars
-----------------------------------------------------------------------------
\* wait_startup returns (its last poll has just run)
WsReturns == wspc = "ws_poll" /\ wspc' = "idle"

\* the requested uids without an entry in the table, in request order
Missing(uids, table) == SelectSeq(uids, LAMBDA uid : uid \notin DOMAIN table)

\* C11: wait_startup returns None only if at its last poll every requested uid
\* had an entry in the timestamp table; otherwise it returns exactly the
\* requested uids that had no entry at that poll, in request order.  It returns
\* one of the two also when the timeout has run out (it does not raise), and
\* with uids omitted it waits for the single uid 'default'.
C11_WaitStartupReturn ==
    [][/\ WsReturns =>
            /\ wsret'.kind \in {"None", "list"}
            /\ (wsret'.kind = "None") = (Missing(wsuids, tstamps) = <<>>)
            /\ wsret'.kind = "list" => wsret'.val = Missing(wsuids, tstamps)
       /\ \A to \in WaitTimeouts :
            wait_startup(<<>>, to) => wsuids' = <<"default">>]_vars

\* a wait for two uids ran into its timeout with the first one seen: it
\* returned the second one alone
C11_Witness ==
    /\ wspc = "idle" /\ wsuids = <<"w", "default">> /\ Truthy(wsto)
    /\ wsok = <<"w">> /\ wsret = RetList(<<"default">>)
-----------------------------------------------------------------------------
\* a caller is inside wait_startup
Waiting == wspc \in {"ws_poll", "ws_sleep"}

\* a poll of wait_startup
Polls == wspc = "ws_poll" /\ wspc' # "ws_poll"

\* what every poll of a wait with a timeout does: it returns nothing at once
\* when all requested uids are present; it returns a list of unseen uids only
\* when the timeout has elapsed since the call; and a poll that finds a uid
\* unseen after the timeout has elapsed returns, so that the wait ends with the
\* first poll after it, one polling sub-interval after it at the latest
PollInTime ==
    Polls =>
        /\ Missing(wsuids, tstamps) = <<>> => (wspc' = "idle" /\ wsret' = RetNone)
        /\ (wspc' = "idle" /\ wsret'.kind = "list") => clock - wsstart >= wsto
        /\ (Missing(wsuids, tstamps) # <<>> /\ clock - wsstart > wsto) => wspc' = "idle"

\* the timeout of the wait runs out within the time modelled
WaitInHorizon == wsstart + wsto < MaxTime

\* C12 (as claimed): wait_startup with a timeout T (a timeout that is not None)
\* always eventually returns while the process runs: at once when a poll finds
\* all requested uids, never with a list of unseen uids before T has elapsed,
\* and with the first poll after T has elapsed when a uid is still unseen.
\* Refuted by T = 0, which the code treats as no timeout.
C12_TimedWaitReturns ==
    /\ [][wsto # None => PollInTime]_vars
    /\ (Waiting /\ wsto # None /\ WaitInHorizon) ~> (~Waiting \/ ~alive)

\* C12 (amended): the same for a timeout T that is neither None nor 0.
C12_TruthyTimedWaitReturns ==
    /\ [][Truthy(wsto) => PollInTime]_vars
    /\ (Waiting /\ Truthy(wsto) /\ WaitInHorizon) ~> (~Waiting \/ ~alive)

\* a wait with a timeout returned unseen uids, one time unit after its timeout
C12_Witness ==
    /\ wspc = "idle" /\ wsret.kind = "list" /\ Truthy(wsto)
    /\ clock = wsstart + wsto + 1 /\ alive
-----------------------------------------------------------------------------
\* the watcher wakes from its interval sleep (168 returns)
WakesUp == wpc = "w_sleep" /\ wpc' # "w_sleep"

\* the watcher has left its loop
Exited == wpc = "w_exit"

\* C13 (the claim; the code departs from it): stop() returns without waiting
\* for the watcher, and once stop() has been called the watcher, when it next
\* wakes from its interval sleep, observes the stop flag and leaves: it does not
\* invoke the self-heartbeat callback, scan the table, invoke the recovery
\* callback or start a termination escalation.
C13_StopExitsAtWakeup ==
    [][/\ stop => (wpc' = wpc /\ term')
       /\ (WakesUp /\ term) => Exited']_vars
-----------------------------------------------------------------------------
\* the watcher has sent the graceful signal and is in the grace period (209)
InGrace == wpc = "w_grace"

\* the step that ends the grace period sends the forceful signal to the process
\* the graceful one went to
SecondStage ==
    /\ Len(signals') = Len(signals) + 1
    /\ signals'[Len(signals')].sig = SIGKILL
    /\ Len(signals) >= 1
    /\ signals[Len(signals)].sig = SIGTERM
    /\ signals'[Len(signals')].pid = signals[Len(signals)].pid

\* the grace period ends within the time modelled
GraceInHorizon == wake <= MaxTime

\* C14 (as claimed): once the watcher has sent the graceful signal for a uid,
\* the forceful signal to the same process always eventually follows, under
\* every interleaving.  Refuted: the graceful signal goes to the watcher's own
\* process; when it ends the process, the watcher sends nothing more.
C14_ForcefulAlwaysFollows ==
    /\ [][(InGrace /\ ~InGrace') => SecondStage]_vars
    /\ []((InGrace /\ clock >= wake) => ENABLED WKill)
    /\ (InGrace /\ GraceInHorizon) ~> ~InGrace

\* C14 (amended): once the watcher has sent the graceful signal for a uid and
\* the process still runs (it survived the signal), the forceful signal to the
\* same process always eventually follows, whatever the callers do meanwhile:
\* stop(), beat() for that uid, wait_startup(), dump().  No step takes the
\* watcher out of the grace period other than the one that sends the forceful
\* signal.
C14_EscalationCompletes ==
    /\ [][(InGrace /\ ~InGrace') => SecondStage]_vars
    /\ [][(InGrace /\ alive) => ((cur' = cur /\ wake' = wake) \/ ~InGrace')]_vars
    /\ []((InGrace /\ alive /\ clock >= wake) => ENABLED WKill)
    /\ (InGrace /\ alive /\ GraceInHorizon) ~> ~InGrace

\* both signals of an escalation were sent although stop() had been called and
\* the uid had beaten again
C14_Witness ==
    /\ term /\ alive /\ wpc = "w_for" /\ Len(signals) = 2
    /\ signals[1].sig = SIGTERM /\ signals[2].sig = SIGKILL
    /\ outcome["w"] = "term" /\ origin["w"] = "beat_now" /\ tstamps["w"] >= signals[1].at
-----------------------------------------------------------------------------
\* uid u is timed out in the current tick (189, for a timeout that is set)
Stale(u) == u \in DOMAIN tstamps /\ Truthy(timeout) /\ now - tstamps[u] > timeout

\* the for loop takes uid u from the snapshot and examines it
Visits(u) == wpc = "w_for" /\ u \in todo /\ u \notin todo'

\* the watcher is done with uid u
Leaves(u) == cur = u /\ cur' # u /\ wpc' # "w_crash"

\* how a tick goes through its snapshot: a uid is taken only when the uid before
\* it is done; a uid found timed out gets the recovery step next (the callback,
\* when one is configured) and is left only recovered or with both signals of
\* its own escalation sent; the uids still to visit stay as they are meanwhile;
\* and the tick ends only when none is left
OneByOne ==
    /\ \A u \in Keys :
          /\ Visits(u) => (cur = PyNone /\ todo' = todo \ {u})
          /\ (Visits(u) /\ Stale(u)) => (wpc' = "w_cb" /\ cur' = u)
          /\ Leaves(u) =>
                /\ wpc' = "w_for" /\ todo' = todo
                /\ outcome'[u] \in {"term", "rec"}
                /\ outcome'[u] = "term" => SecondStage
    /\ wpc = "w_cb" => wpc' \in {"w_cb", "w_term", "w_recover", "w_crash"}
    /\ wpc = "w_term" => wpc' \in {"w_term", "w_grace"}
    /\ TickEnds => todo = {}

\* a timed-out uid of the snapshot is waiting for its turn
StaleWaiting == \E u \in todo : Stale(u)

\* C15 (as claimed): within a tick the uids of the snapshot are processed one
\* after another, and two uids timed out in the same tick are both fully
\* processed in it; a later uid is never skipped because an earlier one escalated
\* to termination.  Refuted: the escalation of the earlier uid signals the
\* watcher's own process; when that ends the process, the later uid is left.
C15_LaterUidNeverSkipped ==
    /\ [][OneByOne]_vars
    /\ [](StaleWaiting => alive)

\* C15 (amended): while the process runs, the uids of the snapshot are
\* processed one after another without overlap, every uid found timed out gets
\* its recovery-callback invocation and, if unrecoverable, its own escalation
\* with both signals, and the escalation of an earlier uid leaves the uids still
\* to be visited untouched and the for loop going.
C15_OneByOneWhileRunning == [][alive' => OneByOne]_vars

\* two uids timed out in one tick and each got an escalation of its own
C15_Witness ==
    /\ alive /\ wpc = "w_for" /\ todo = {}
    /\ outcome["w"] = "term" /\ outcome["default"] = "term"
    /\ Len(signals) = 4 /\ signals[3].sig = SIGTERM /\ signals[4].sig = SIGKILL
-----------------------------------------------------------------------------
\* the watcher is at a callback of a tick: the self-heartbeat callback (172) or
\* the recovery callback (199)
AtCallback == wpc \in {"w_beat", "w_cb"}

\* the watcher thread has ended with an exception
Aborted == wpc = "w_crash"

\* C16 (the claim; the code departs from it): an error raised by the
\* self-heartbeat callback or by the recovery callback during a tick does not
\* abort the watcher loop: after the callback the loop is still running and goes
\* on with the remaining uids of the tick and with the following ticks.
C16_CallbackErrorTolerated ==
    [][AtCallback => ~Aborted']_vars
-----------------------------------------------------------------------------
\* the watcher sleeps, runs a callback or is inside the termination escalation
Unlocked == wpc \in {"w_init", "w_sleep", "w_beat", "w_cb", "w_term", "w_grace"}

\* the watcher is at one of its table accesses: the snapshot (176), the read
\* of a timestamp (183), the replacement of an entry (221-222)
AtTableStep == wpc \in {"w_snap", "w_for", "w_recover"}

\* C17: the watcher holds the table lock only at a single table read/write
\* step, which it can always take and which releases the lock; it never holds
\* it while it sleeps, runs the self-heartbeat callback, runs the recovery
\* callback or performs the termination escalation.  So in each of these
\* positions, however long the watcher stays there, a beat() call can take the
\* lock and complete.
C17_LockOnlyAtTableSteps ==
    /\ [](lock = "watcher" => (AtTableStep /\ wake = 0))
    /\ []((lock = "watcher" /\ alive) => ENABLED (WSnap \/ WFor \/ WRecover))
    /\ [](Unlocked => lock = "free")
    /\ []((Unlocked /\ Usable) => \A u \in UidArgs, t \in TsArgs : ENABLED beat(u, t))
    /\ [][(lock = "watcher" /\ (wpc' # wpc \/ todo' # todo \/ tstamps' # tstamps))
             => lock' = "free"]_vars

\* during the grace-period sleep of its escalation the timed-out uid has beaten
C17_Witness ==
    /\ wpc = "w_grace" /\ lock = "free" /\ alive /\ clock < wake
    /\ cur \in DOMAIN tstamps /\ tstamps[cur] >= now /\ origin[cur] = "beat_now"
-----------------------------------------------------------------------------
\* the watcher is in a tick, past the place of the self-heartbeat callback
PastBeatCb == wpc \in {"w_snap", "w_for", "w_cb", "w_term", "w_grace", "w_recover"}

\* C18: when a self-heartbeat callback is configured, the watcher invokes it
\* exactly once in every tick, whatever the timestamp table holds, and before
\* any uid of the tick is examined: it is invoked before the snapshot is taken,
\* not again during the tick, and the tick ends with one invocation made.
C18_BeatCbOncePerTick ==
    /\ []((obj = "ok" /\ beat_cb /\ wpc = "w_beat") => (nbeat = 0 /\ todo = {}))
    /\ []((obj = "ok" /\ beat_cb /\ PastBeatCb) => nbeat = 1)
    /\ [][beat_cb =>
             /\ nbeat' > nbeat => (wpc = "w_beat" /\ nbeat' = 1 /\ lock = "free")
             /\ (\E u \in Keys : Visits(u)) => nbeat = 1
             /\ TickEnds => nbeat = 1
             /\ WakesUp => wpc' = "w_beat"]_vars

\* a tick that escalated a timed-out uid has ended with the self-heartbeat
\* callback invoked once
C18_Witness ==
    /\ obj = "ok" /\ beat_cb /\ alive /\ wpc = "w_loop" /\ nbeat = 1
    /\ \E u \in Uids : outcome[u] = "term"
-----------------------------------------------------------------------------
\* a step of dump or of wait_startup
ReaderStep == dumped' # dumped \/ <<wspc, wsuids, wsto, wsstart, wsok, wsret>>' #
                                   <<wspc, wsuids, wsto, wsstart, wsok, wsret>>

\* the monitor: its configuration, table, stop flag, registry, lock and watcher
MonitorState == <<obj, timeout, interval, beat_cb, term_cb, term, tstamps, monitors,
                  lock, alive, signals, wpc, wake, now, todo, cur, ret>>

\* C19: dump and wait_startup are read-only: no step of either adds, removes or
\* changes a timestamp table entry or changes the stop flag, the registry or
\* anything else of the monitor; and dump(log), whenever it is called on a
\* constructed monitor, completes and logs the table as it is, also when the
\* table is empty.
C19_ReadersChangeNothing ==
    /\ [][ReaderStep => UNCHANGED MonitorState]_vars
    /\ [][dumped' # dumped => dumped' = [done |-> TRUE, table |-> tstamps]]_vars
    /\ [](Usable => ENABLED dump)

\* the empty table was dumped, and later a wait_startup returned with all its
\* uids seen
C19_Witness ==
    /\ dumped = [done |-> TRUE, table |-> <<>>]
    /\ wspc = "idle" /\ wsret = RetNone /\ tstamps # <<>> /\ wpc # "idle"
-----------------------------------------------------------------------------
\* object o holds its lock: between a successful acquire and the release
Holds(o) == lf_fd[o] # NoFd

\* another object on the file of o holds its lock
OtherHolds(o) == \E p \in Lockfiles \ {o} : FileOf(p) = FileOf(o) /\ Holds(p)

\* a round of the acquire of o runs (the file is opened and the flock tried)
Tries(o) == lf_pc[o] = "try" /\ lf_pc'[o] # "try"

\* C20: of the Lockfile objects on one file name at most one holds the lock at
\* any time.  While one holds it, every attempt of another object on that file
\* to take it leaves that object not locked, and the acquire that ends with
\* such an attempt ends with RuntimeError; an attempt made while no other
\* object on the file holds the lock (the holder has released it) succeeds.
C20_OneHolderPerFile ==
    /\ [](\A o \in Lockfiles : ~(Holds(o) /\ OtherHolds(o)))
    /\ [][\A o \in Lockfiles :
             /\ (Tries(o) /\ OtherHolds(o)) =>
                   /\ ~Holds(o)'
                   /\ lf_pc'[o] = "idle" => lf_res'[o] \in RuntimeErrors
             /\ (Tries(o) /\ ~OtherHolds(o)) =>
                   (Holds(o)' /\ lf_pc'[o] = "idle" /\ lf_res'[o] = Returned)]_vars

\* a holds the lock of its file; b, on the same file, tried until its timeout
\* ran out and is not locked; c holds the lock of another file meanwhile
C20_Witness ==
    /\ Holds("a") /\ lf_res["a"] = Returned
    /\ ~Holds("b") /\ lf_pc["b"] = "idle" /\ lf_res["b"] = LockTimeout
    /\ Holds("c")
-----------------------------------------------------------------------------
\* a step changes something of object o
Touches(o) == <<lf_fd[o], lf_pc[o], lf_res[o]>>' # <<lf_fd[o], lf_pc[o], lf_res[o]>>

\* an acquire of o ends
AcquireEnds(o) ==
    \/ \E to \in LockTimeouts : acquire(o, to) /\ lf_pc'[o] = "idle"
    \/ Tries(o) /\ lf_pc'[o] = "idle"

\* C21: on one Lockfile object, locked() is true exactly between a successful
\* acquire() and the next release(): the object becomes locked only by an
\* acquire that returns and not locked only by a release that returns, and
\* locked() answers accordingly.  acquire() while locked raises RuntimeError
\* and leaves the object locked; release(), read(), write(), lseek() and seek()
\* while not locked raise ValueError and leave it not locked; an acquire() that
\* fails (lock busy or timeout) leaves it not locked.
C21_LockedBetweenAcquireAndRelease ==
    [][\A o \in Lockfiles :
         Touches(o) =>
           /\ locked(o) => lf_res'[o] = (IF Holds(o) THEN "True" ELSE "False")
           /\ (~Holds(o) /\ Holds(o)') => (AcquireEnds(o) /\ lf_res'[o] = Returned)
           /\ (Holds(o) /\ ~Holds(o)') => (release(o) /\ lf_res'[o] = Returned)
           /\ (lf_res'[o] = Returned /\ AcquireEnds(o)) => (~Holds(o) /\ Holds(o)')
           /\ (Holds(o) /\ AcquireEnds(o)) => (lf_res'[o] \in RuntimeErrors /\ Holds(o)')
           /\ (lf_res'[o] \in RuntimeErrors /\ AcquireEnds(o)) => Holds(o)' = Holds(o)
           /\ (~Holds(o) /\ release(o)) => (lf_res'[o] = NotOpen /\ ~Holds(o)')
           /\ \A op \in IoOps :
                 (~Holds(o) /\ io(o, op)) => (lf_res'[o] = NotOpen /\ ~Holds(o)')]_vars

\* a second acquire on the locked object b has raised; an operation on a,
\* released before, has raised too
C21_Witness ==
    /\ Holds("b") /\ lf_res["b"] = OpenTwice
    /\ ~Holds("a") /\ lf_res["a"] = NotOpen /\ flocks["f"] = lf_fd["b"]

-----------------------------------------------------------------------------
\* C22: beat(uid, timestamp) always succeeds and on return the table maps uid
\* ('default' when the uid is omitted) to exactly the given timestamp (the current
\* time when the timestamp is omitted), whatever was stored before; no other entry
\* changes, and repeating the same beat leaves the table as it is.
C22_BeatStoresGivenTimestamp ==
    [][\A u \in UidArgs, t \in TsArgs :
         beat(u, t) =>
            LET k == IF u = PyNone THEN "default" ELSE u
            IN  /\ DOMAIN tstamps' = DOMAIN tstamps \cup {k}
                /\ tstamps'[k] = (IF t = None THEN clock ELSE t)
                /\ \A j \in DOMAIN tstamps \ {k} : tstamps'[j] = tstamps[j]
                /\ Beaten(BeatUid(u), BeatStamp(t))' = tstamps']_vars

-----------------------------------------------------------------------------
\* the watcher is inside the for loop of a tick (178-222)
InTick == wpc \in {"w_for", "w_cb", "w_term", "w_grace", "w_recover"}

\* the uid the watcher is about to examine, or to delete, has no entry: the
\* 'never seen' branch (185-187) or the KeyError of del (221) is what follows
EntryLost ==
    \/ InTick /\ ~(todo \subseteq DOMAIN tstamps)
    \/ wpc \in {"w_cb", "w_recover"} /\ cur \notin DOMAIN tstamps

\* del self._tstamps[uid] has raised KeyError in the watcher
DeleteFailed == wpc = "w_crash" /\ ret # PyNone

\* start() was called twice and the first watcher finds an entry of its snapshot
\* gone: the other loop has recovered the uid in between
TwoLoopsLoseEntry == wpc2 # "idle" /\ EntryLost

TwoLoopsDeleteFails == wpc2 # "idle" /\ DeleteFailed

\* C23: with start() called once, every uid of a tick's snapshot still has its
\* entry when the watcher examines it and when the recovery step deletes it, under
\* every interleaving with beat(), wait_startup() and dump(): the 'never seen'
\* branch is not taken and the deletion never fails.  (With a second start() the
\* states TwoLoopsLoseEntry and TwoLoopsDeleteFails are reached.)
C23_SnapshotUidsKeepEntries == wpc2 = "idle" => (~EntryLost /\ ~DeleteFailed)

\* one watcher has deleted the timed-out "w" and recorded the replacement, with
\* beats for "w", a dump and a wait_startup in progress
C23_Witness ==
    /\ wpc2 = "idle" /\ wpc = "w_for"
    /\ outcome["w"] = "rec" /\ "w" \notin DOMAIN tstamps
    /\ "w" \in beaten /\ dumped.done /\ wspc = "ws_sleep"

-----------------------------------------------------------------------------
\* the watcher begins the sleep of a further tick (168)
EntersSleep == wpc # "w_sleep" /\ wpc' = "w_sleep"

\* the watcher thread has ended: it left the loop, an exception left _watch, or
\* the process is gone
Terminated == wpc \in {"w_exit", "w_crash"} \/ ~alive

\* the watcher sleeps and the sleep ends after the last instant of the model
BeyondHorizon == wpc \in {"w_sleep", "w_grace"} /\ wake > MaxTime

\* C24: after stop() on a started monitor the watcher begins at most one further
\* tick, the one whose sleep was pending when stop() was called, and then
\* terminates (its callbacks return or raise): the stop flag is never cleared,
\* with the flag set the watcher enters no further sleep, an evaluation of the
\* loop condition with the flag set leaves the loop, and no tick begins after it.
C24_StopEndsLoopAfterPendingTick ==
    /\ [][term => term']_vars
    /\ [][term => ~EntersSleep]_vars
    /\ [][(term /\ wpc = "w_loop" /\ wpc' # "w_loop" /\ alive) => Exited']_vars
    /\ [][Exited => Exited']_vars
    /\ (term /\ wpc # "idle") ~> (Terminated \/ BeyondHorizon)

\* stop() was called while the watcher slept; the tick of that sleep has run
\* (it recovered "w") and the watcher has left the loop
C24_Witness ==
    /\ term /\ Exited /\ alive
    /\ outcome["w"] = "rec" /\ "w" \notin DOMAIN tstamps

-----------------------------------------------------------------------------
\* the recovery step has deleted the failing uid and not yet recorded the
\* replacement (between 221 and 222)
HalfRecovered == wpc = "w_insert"

\* a step that observes the table under the lock: beat(), a poll of
\* wait_startup(), the snapshot of a tick
LockedObserver ==
    \/ \E u \in WaitBeatUids, t \in {None, -2} : beat(u, t)
    \/ WsPoll
    \/ WSnap

\* the uids that enter the table as the replacement of a recovery only
ReplacementOnly == Uids \ WaitBeatUids

\* a recovery step has recorded u at some time / u is in the table as a recovery
\* step recorded it
WasReplacement(u) == u \in ReplacementOnly /\ origin[u] \in {"rec", "gone"}

IsReplacement(u) == u \in ReplacementOnly /\ origin[u] = "rec"

\* a poll of wait_startup finds every requested uid: the call returns None
PollSucceeds == WsPoll /\ wspc' = "idle" /\ wsret' = RetNone

-----------------------------------------------------------------------------
\* a beat() step for uid u
BeatFor(u) == \E a \in UidArgs, t \in TsArgs : BeatUid(a) = u /\ beat(a, t)

\* C26: the timeout decision for a uid is taken on the timestamp read during the
\* scan and on the `now` sampled once at the start of the tick, and is not
\* re-checked: a beat(uid) that completes after the stale read changes nothing
\* of the protocol under way, the recovery callback is still invoked, the
\* termination signal still sent, and the recovery step to another uid deletes
\* the entry, the one written by the late beat included.
C26_DecisionNotRechecked ==
    /\ [][(InTick /\ InTick') => now' = now]_vars
    /\ [][\A u \in Uids :
            (DecidesTimeout(u) /\ Truthy(timeout)) => (Stale(u) /\ wpc' = "w_cb")]_vars
    /\ [][\A u \in Uids :
            (Escalating(u) /\ BeatFor(u)) => (Escalating(u)' /\ wpc' = wpc /\ ret' = ret)]_vars
    /\ []((alive /\ wpc = "w_cb") => ENABLED WCb)
    /\ []((alive /\ wpc = "w_term") => ENABLED WTerm)
    /\ [][\A u \in Uids : (cur = u /\ wpc = "w_cb" /\ wpc' # "w_cb") => WCb]_vars
    /\ [][\A u \in Uids : (cur = u /\ wpc = "w_term" /\ wpc' # "w_term") => SendsSigterm(u)]_vars
    /\ [][\A u \in Uids, v \in Keys :
            (RecoveryStep(u, v) /\ v # u) => u \notin DOMAIN tstamps']_vars

\* the recovery callback has returned the replacement "default" for "w" although
\* a beat had refreshed the entry of "w" after the stale read; the recovery
\* step is about to delete it
C26_Witness ==
    /\ wpc = "w_recover" /\ cur = "w" /\ ret = "default" /\ Truthy(timeout)
    /\ "w" \in DOMAIN tstamps /\ tstamps["w"] = clock /\ ~Stale("w")

=============================================================================
